---- MODULE Spec2Model ----
(***************************************************************************)
(* Notion-Recursive-Backup: the recursive traversal of src/src/notion.js   *)
(* (getPageTitle, getChildPages, convertPageToMarkdown, processPage,       *)
(* processPageRecursively) driven by main() of src/src/backup.js.          *)
(*                                                                         *)
(* Strings are sequences of one-character strings.  A directory is the     *)
(* sequence of its path components below CONFIG.OUTPUT_DIR (<<>> is        *)
(* CONFIG.OUTPUT_DIR itself); a file path is its directory followed by the  *)
(* file name.  Every await of the code is one step of the model, so the    *)
(* branches started by the parallel discipline interleave at the awaits.   *)
(***************************************************************************)
EXTENDS Integers, Sequences, FiniteSets, TLC

VARIABLES
    cfg,      \* the fixture of the run: environment, CONFIG, remote tree, faults
    pcMain,   \* position of main()
    exitCode, \* process exit status, -1 while the process runs
    stats,    \* utils.js stats: [pagesProcessed, errors]
    files,    \* the files on disk: set of [path, node] (node = whose content)
    dirs,     \* the directories on disk
    wrote,    \* every fs.writeFile that succeeded: set of [path, node]
    v,        \* one processPageRecursively frame per node of the remote tree
    prev      \* outcome of the preceding run of the same fixture (SpecEquiv)

vars == <<cfg, pcMain, exitCode, stats, files, dirs, wrote, v, prev>>

----------------------------------------------------------------------------
(* Bounds *)

\* how many remote calls / file-system calls of one run may fail
MaxFaults == 2

\* how many blocks the remote puts in one response of blocks.children.list
RemotePageLen == 1

----------------------------------------------------------------------------
(* Strings *)

\* String.prototype.substring(0, n)
Substring0(s, n) == SubSeq(s, 1, IF Len(s) < n THEN Len(s) ELSE n)

RECURSIVE TrimLeft(_)
TrimLeft(s) == IF s # <<>> /\ Head(s) = " " THEN TrimLeft(Tail(s)) ELSE s

RECURSIVE TrimRight(_)
TrimRight(s) ==
    IF s # <<>> /\ s[Len(s)] = " " THEN TrimRight(SubSeq(s, 1, Len(s) - 1)) ELSE s

\* characters that break a path or are reserved in file names
ReservedChars == {"/", "\\", ":", "*", "?", "<", ">", "|"}

SanitizeChar(c) == IF c \in ReservedChars THEN "-" ELSE c

\* utils.js sanitizeFilename(name): replace the reserved characters, trim, and
\* never return the empty string.  The call sites pass the title alone.
sanitizeFilename(name) ==
    LET t == TrimRight(TrimLeft([i \in 1..Len(name) |-> SanitizeChar(name[i])]))
    IN  IF t = <<>> THEN <<"untitled">> ELSE t

\* path.join(parentPath, name)
PathJoin(parentPath, name) == Append(parentPath, name)

\* the directories fs.mkdir(dir, {recursive: true}) leaves on disk
RECURSIVE Prefixes(_)
Prefixes(dir) ==
    IF dir = <<>> THEN {<<>>} ELSE {dir} \cup Prefixes(SubSeq(dir, 1, Len(dir) - 1))

----------------------------------------------------------------------------
(* The remote workspace of a run *)

\* the page ids: the first is NOTION_ROOT_PAGE_ID, the others are block.id of
\* child_page blocks.  The second and the third agree on their first 8
\* characters; the fourth is shorter than 8 characters.
IdOf ==
    << <<"5","1","c","3","d","7","e","e","-","d">>,
       <<"a","0","a","0","a","0","a","0","-","1">>,
       <<"a","0","a","0","a","0","a","0","-","2">>,
       <<"b","7">> >>

Nodes == DOMAIN IdOf

Root == 1

\* the remote trees: Shape[n] is the page whose listing holds n as a
\* child_page block, 0 for the root
Shapes ==
    { <<0, 1, 1, 2>>,     \* R -> {A, B}, A -> {C}
      <<0, 1, 1, 3>>,     \* R -> {A, B}, B -> {C}
      <<0, 1, 1, 1>>,     \* R -> {A, B, C}
      <<0, 1, 2, 3>> }    \* R -> A -> B -> C

\* the title property of every page: the array of rich-text items, each given
\* by its plain_text; the empty array for a page without a title
TitleSchemes ==
    { << << <<"R">> >>, << <<"A">> >>, << <<"B">> >>, << <<"C">> >> >>,
      << << <<"R">> >>, << <<"A", "/", "B">> >>, << <<"A", "-", "B">> >>,
         << <<" ", "C", " ">> >> >>,
      << << <<"R">> >>, <<>>, <<>>, << <<" ">> >> >> }

Children(n) ==
    LET kids == {m \in Nodes : cfg.parent[m] = n}
        RECURSIVE Asc(_)
        Asc(S) == IF S = {} THEN <<>>
                  ELSE LET m == CHOOSE x \in S : \A y \in S : x <= y
                       IN  <<m>> \o Asc(S \ {m})
    IN  Asc(kids)

\* the blocks of a page, in the order blocks.children.list returns them: one
\* block that is no child_page, then the child pages
Blocks(n) ==
    <<[type |-> "paragraph", id |-> 0]>> \o
    [i \in 1..Len(Children(n)) |-> [type |-> "child_page", id |-> Children(n)[i]]]

NumPages(n) == (Len(Blocks(n)) + RemotePageLen - 1) \div RemotePageLen

\* response.results of the k-th request of the listing of n
ResponseResults(n, k) ==
    LET last == IF k * RemotePageLen < Len(Blocks(n)) THEN k * RemotePageLen
                ELSE Len(Blocks(n))
    IN  SubSeq(Blocks(n), (k - 1) * RemotePageLen + 1, last)

\* response.next_cursor of the k-th request: the next request, 0 for none
NextCursor(n, k) == IF k < NumPages(n) THEN k + 1 ELSE 0

\* the calls of a run that can fail: per page the metadata request, the
\* conversion, the file write, the creation of the child directory and every
\* request of the listing; per run the creation of the output directory and
\* the generation of the index
FaultAtoms(parent) ==
    LET hasKids(n) == \E m \in Nodes : parent[m] = n
        nblocks(n) == 1 + Cardinality({m \in Nodes : parent[m] = n})
        npages(n) == (nblocks(n) + RemotePageLen - 1) \div RemotePageLen
    IN  {[node |-> n, kind |-> k, page |-> 0] :
            n \in Nodes, k \in {"retrieve", "convert", "write"}}
        \cup {[node |-> n, kind |-> "mkdir", page |-> 0] :
                n \in {m \in Nodes : hasKids(m)}}
        \cup UNION {{[node |-> n, kind |-> "list", page |-> k] : k \in 1..npages(n)} :
                n \in Nodes}
        \cup {[node |-> 0, kind |-> k, page |-> 0] : k \in {"outdir", "index"}}

RECURSIVE FaultSets(_, _)
FaultSets(parent, k) ==
    IF k = 0 THEN {{}}
    ELSE LET S == FaultSets(parent, k - 1)
         IN  S \cup {s \cup {a} : s \in S, a \in FaultAtoms(parent)}

Fails(n, kind, page) == [node |-> n, kind |-> kind, page |-> page] \in cfg.faults

\* the id that the reference n of the tree carries: block.id of the child_page
\* block, NOTION_ROOT_PAGE_ID for the root
PageId(n) == IdOf[cfg.ids[n]]

\* properties.title.title of the page that n refers to
TitleProp(n) == cfg.titles[cfg.ids[n]]

----------------------------------------------------------------------------
(* State *)

\* a frame of processPageRecursively that was not called yet.  sleeps and
\* requests count the sleep(CONFIG.API_DELAY) calls that completed and the
\* remote requests that were issued by the frame.
Pending ==
    [pc |-> "pending", title |-> <<>>, children |-> <<>>, cursor |-> 0,
     parentPath |-> <<>>, level |-> 0, i |-> 0, sleeps |-> 0, requests |-> 0]

\* processPageRecursively(pageId, parentPath, level) up to its first await,
\* the sleep of getPageTitle
Call(parentPath, level) ==
    [Pending EXCEPT !.pc = "title", !.parentPath = parentPath, !.level = level]

\* the promise of the frame is settled: resolved after its last step ("done")
\* or after its catch ("failed"), or rejected
Terminal(n) == v[n].pc \in {"done", "failed", "rejected"}

\* the runs of one discipline: every tree, every title scheme and every choice
\* of at most MaxFaults failing calls; and the runs with a variable of the
\* environment missing
Fixtures(disciplines) ==
    UNION {
      {[rootId |-> TRUE, token |-> TRUE, parallel |-> p, parent |-> sh,
        ids |-> <<1, 2, 3, 4>>, titles |-> t, faults |-> f] :
          p \in disciplines, t \in TitleSchemes, f \in FaultSets(sh, MaxFaults)} :
      sh \in Shapes}
    \cup
    {[rootId |-> r, token |-> k, parallel |-> p, parent |-> sh,
      ids |-> <<1, 2, 3, 4>>, titles |-> t, faults |-> {}] :
        r \in BOOLEAN, k \in BOOLEAN, p \in disciplines, sh \in Shapes,
        t \in TitleSchemes}

\* the process at its start: stats of utils.js is {pagesProcessed: 0, errors: 0},
\* nothing is written, the output directory may be left over from an earlier run
Fresh ==
    /\ pcMain = "start"
    /\ exitCode = -1
    /\ stats = [pagesProcessed |-> 0, errors |-> 0]
    /\ files = {}
    /\ dirs \in {{}, {<<>>}}
    /\ wrote = {}
    /\ v = [n \in Nodes |-> Pending]

Init ==
    /\ cfg \in Fixtures(BOOLEAN)
    /\ Fresh
    /\ prev = {}

\* the runs on a tree in which one page is listed under two parents: the
\* child_page block under the root and the one under its second child carry
\* the same id
DupFixtures ==
    {[rootId |-> TRUE, token |-> TRUE, parallel |-> p, parent |-> <<0, 1, 1, 3>>,
      ids |-> <<1, 2, 3, 2>>, titles |-> t, faults |-> f] :
        p \in BOOLEAN, t \in TitleSchemes, f \in FaultSets(<<0, 1, 1, 3>>, MaxFaults)}

InitDup ==
    /\ cfg \in DupFixtures
    /\ Fresh
    /\ prev = {}

----------------------------------------------------------------------------
(* notion.js *)

\* mutant: one character short
UntitledSeven(n) == <<"Untitled-">> \o Substring0(PageId(n), 7)

\* `Untitled-${pageId.substring(0, 8)}`
Untitled(n) == <<"Untitled-">> \o Substring0(PageId(n), 8)

\* getPageTitle(pageId): the value the promise resolves with
getPageTitle(n) ==
    IF Fails(n, "retrieve", 0)
    THEN Untitled(n)                                  \* catch
    ELSE LET titleProp == TitleProp(n)
         IN  IF Len(titleProp) > 0 THEN titleProp[1]  \* title[0].plain_text
             ELSE Untitled(n)

\* the child_page entries of one response, in order
RECURSIVE ChildPagesOf(_)
ChildPagesOf(results) ==
    IF results = <<>> THEN <<>>
    ELSE (IF Head(results).type = "child_page" THEN <<Head(results).id>> ELSE <<>>)
         \o ChildPagesOf(Tail(results))

\* mutant: the entries collected so far are returned
getChildPagesCatchPartial(children) == children

\* what the catch of getChildPages returns when a request of the listing
\* throws with `children` collected so far
getChildPagesCatch(children) == <<>>

\* mutant: the increment writes back a value read before another increment
CountErrorLost(s) == [s EXCEPT !.errors = 1]

\* stats.errors++
CountError(s) == [s EXCEPT !.errors = @ + 1]

\* the catch of processPage: count the error and throw it again
processPageCatch(s) == CountError(s)

\* the catch of processPageRecursively: count the error and return
processPageRecursivelyCatch(s) == CountError(s)

\* mutant: the catch of processPageRecursively throws the error again
catchThrows == TRUE

\* whether the catch of processPageRecursively ends by throwing: it logs and
\* counts and has no throw statement
processPageRecursivelyRejects == FALSE

\* how the promise of a frame settles when an error reaches the catch of
\* processPageRecursively
Settled == IF processPageRecursivelyRejects THEN "rejected" ELSE "failed"

\* the handler at the call site of a child, .catch(...) of the parallel
\* discipline and catch of the for loop: stats.errors++ when the promise of
\* the child n rejects.  A rejection of the root reaches the catch of main.
childCatch(n, s) ==
    IF processPageRecursivelyRejects /\ n # Root THEN CountError(s) ELSE s

\* filepath of processPage
FilePath(n) ==
    PathJoin(v[n].parentPath, sanitizeFilename(v[n].title) \o <<".md">>)

\* mutant: the children are written next to their parent
ChildDirFlat(n) == v[n].parentPath

\* childDir of processPageRecursively
ChildDir(n) == PathJoin(v[n].parentPath, sanitizeFilename(v[n].title))

\* fs.writeFile(path, content of n)
WriteFile(fs, path, n) == {f \in fs : f.path # path} \cup {[path |-> path, node |-> n]}

\* the frame has completed the sleep that precedes its next remote request
Throttled(n) == v[n].sleeps = v[n].requests + 1

\* await sleep(CONFIG.API_DELAY) of getPageTitle, of convertPageToMarkdown and
\* of every turn of the loop of getChildPages: the timer fires
Sleep(n) ==
    /\ pcMain = "traverse"
    /\ v[n].pc \in {"title", "convert", "list"}
    /\ ~Throttled(n)
    /\ v' = [v EXCEPT ![n].sleeps = @ + 1]
    /\ UNCHANGED <<cfg, pcMain, exitCode, stats, files, dirs, wrote, prev>>

\* processPage: await getPageTitle(pageId), the request notion.pages.retrieve
GetPageTitle(n) ==
    /\ pcMain = "traverse"
    /\ v[n].pc = "title"
    /\ Throttled(n)
    /\ v' = [v EXCEPT ![n].title = getPageTitle(n), ![n].pc = "convert",
                      ![n].requests = @ + 1]
    /\ UNCHANGED <<cfg, pcMain, exitCode, stats, files, dirs, wrote, prev>>

\* mutant: the failure is counted and the frame goes on to getChildPages
ConvertPageToMarkdownContinue(n) ==
    /\ pcMain = "traverse"
    /\ v[n].pc = "convert"
    /\ Throttled(n)
    /\ IF Fails(n, "convert", 0)
       THEN /\ stats' = processPageCatch(stats)
            /\ v' = [v EXCEPT ![n].pc = "list", ![n].cursor = 1,
                              ![n].requests = @ + 1]
       ELSE /\ v' = [v EXCEPT ![n].pc = "write", ![n].requests = @ + 1]
            /\ UNCHANGED stats
    /\ UNCHANGED <<cfg, pcMain, exitCode, files, dirs, wrote, prev>>

\* mutant: after a failed conversion the frame starts over
ConvertPageToMarkdownRetry(n) ==
    /\ pcMain = "traverse"
    /\ v[n].pc = "convert"
    /\ Throttled(n)
    /\ IF Fails(n, "convert", 0)
       THEN v' = [v EXCEPT ![n] = Call(v[n].parentPath, v[n].level)]
       ELSE v' = [v EXCEPT ![n].pc = "write", ![n].requests = @ + 1]
    /\ UNCHANGED <<cfg, pcMain, exitCode, stats, files, dirs, wrote, prev>>

\* processPage: await convertPageToMarkdown(pageId); a failure is thrown again
\* by convertPageToMarkdown and by processPage and ends the frame
ConvertPageToMarkdown(n) ==
    /\ pcMain = "traverse"
    /\ v[n].pc = "convert"
    /\ Throttled(n)
    /\ IF Fails(n, "convert", 0)
       THEN /\ stats' = childCatch(n, processPageRecursivelyCatch(processPageCatch(stats)))
            /\ v' = [v EXCEPT ![n].pc = Settled, ![n].requests = @ + 1]
       ELSE /\ v' = [v EXCEPT ![n].pc = "write", ![n].requests = @ + 1]
            /\ UNCHANGED stats
    /\ UNCHANGED <<cfg, pcMain, exitCode, files, dirs, wrote, prev>>

\* processPage: await ensureDir(parentPath); await fs.writeFile(filepath, ...);
\* stats.pagesProcessed++; then processPageRecursively issues the first request
\* of getChildPages
WritePage(n) ==
    /\ pcMain = "traverse"
    /\ v[n].pc = "write"
    /\ dirs' = dirs \cup Prefixes(v[n].parentPath)
    /\ IF Fails(n, "write", 0)
       THEN /\ stats' = childCatch(n, processPageRecursivelyCatch(processPageCatch(stats)))
            /\ v' = [v EXCEPT ![n].pc = Settled]
            /\ UNCHANGED <<files, wrote>>
       ELSE /\ files' = WriteFile(files, FilePath(n), n)
            /\ wrote' = wrote \cup {[path |-> FilePath(n), node |-> n]}
            /\ stats' = [stats EXCEPT !.pagesProcessed = @ + 1]
            /\ v' = [v EXCEPT ![n].pc = "list", ![n].cursor = 1]
    /\ UNCHANGED <<cfg, pcMain, exitCode, prev>>

\* mutant: only the first request of the listing waits for its sleep
ListChildrenSleepOnce(n) ==
    /\ pcMain = "traverse"
    /\ v[n].pc = "list"
    /\ Throttled(n) \/ v[n].cursor > 1
    /\ LET k == v[n].cursor
           failed == Fails(n, "list", k)
           children == IF failed THEN getChildPagesCatch(v[n].children)
                       ELSE v[n].children \o ChildPagesOf(ResponseResults(n, k))
           cursor == IF failed THEN 0 ELSE NextCursor(n, k)
       IN  v' = [v EXCEPT ![n].children = children,
                          ![n].cursor = cursor,
                          ![n].requests = @ + 1,
                          ![n].pc = IF cursor # 0 THEN "list"
                                    ELSE IF Len(children) > 0 THEN "mkdir"
                                    ELSE "done"]
    /\ UNCHANGED <<cfg, pcMain, exitCode, stats, files, dirs, wrote, prev>>

\* mutant: a failed request of the listing is counted as an error
ListChildrenCounting(n) ==
    /\ pcMain = "traverse"
    /\ v[n].pc = "list"
    /\ Throttled(n)
    /\ LET k == v[n].cursor
           failed == Fails(n, "list", k)
           children == IF failed THEN getChildPagesCatch(v[n].children)
                       ELSE v[n].children \o ChildPagesOf(ResponseResults(n, k))
           cursor == IF failed THEN 0 ELSE NextCursor(n, k)
       IN  /\ v' = [v EXCEPT ![n].children = children,
                             ![n].cursor = cursor,
                             ![n].requests = @ + 1,
                             ![n].pc = IF cursor # 0 THEN "list"
                                       ELSE IF Len(children) > 0 THEN "mkdir"
                                       ELSE "done"]
           /\ stats' = IF failed THEN CountError(stats) ELSE stats
    /\ UNCHANGED <<cfg, pcMain, exitCode, files, dirs, wrote, prev>>

\* getChildPages: one turn of the do-while loop, a request of the listing; after
\* the last one processPageRecursively goes on with what getChildPages returns
ListChildren(n) ==
    /\ pcMain = "traverse"
    /\ v[n].pc = "list"
    /\ Throttled(n)
    /\ LET k == v[n].cursor
           failed == Fails(n, "list", k)
           children == IF failed THEN getChildPagesCatch(v[n].children)
                       ELSE v[n].children \o ChildPagesOf(ResponseResults(n, k))
           cursor == IF failed THEN 0 ELSE NextCursor(n, k)
       IN  v' = [v EXCEPT ![n].children = children,
                          ![n].cursor = cursor,
                          ![n].requests = @ + 1,
                          ![n].pc = IF cursor # 0 THEN "list"
                                    ELSE IF Len(children) > 0 THEN "mkdir"
                                    ELSE "done"]
    /\ UNCHANGED <<cfg, pcMain, exitCode, stats, files, dirs, wrote, prev>>

\* mutant: every child is called at once in both disciplines
StartChildrenAll(n, frames) ==
    LET dir == ChildDir(n)
        kids == v[n].children
        now == {kids[j] : j \in 1..Len(kids)}
    IN  [m \in Nodes |->
            IF m = n THEN [frames[n] EXCEPT !.pc = "children", !.i = 1]
            ELSE IF m \in now THEN Call(dir, frames[n].level + 1)
            ELSE frames[m]]

\* mutant: the children are called with the level of their parent
StartChildrenSameLevel(n, frames) ==
    LET dir == ChildDir(n)
        kids == v[n].children
        now == IF cfg.parallel THEN {kids[j] : j \in 1..Len(kids)} ELSE {kids[1]}
    IN  [m \in Nodes |->
            IF m = n THEN [frames[n] EXCEPT !.pc = "children", !.i = 1]
            ELSE IF m \in now THEN Call(dir, frames[n].level)
            ELSE frames[m]]

\* the frames of the children that processPageRecursively calls at once: all of
\* them in the parallel discipline (childPages.map), the first in the sequential
StartChildren(n, frames) ==
    LET dir == ChildDir(n)
        kids == v[n].children
        now == IF cfg.parallel THEN {kids[j] : j \in 1..Len(kids)} ELSE {kids[1]}
    IN  [m \in Nodes |->
            IF m = n THEN [frames[n] EXCEPT !.pc = "children", !.i = 1]
            ELSE IF m \in now THEN Call(dir, frames[n].level + 1)
            ELSE frames[m]]

\* processPageRecursively: await ensureDir(childDir), then the calls of the
\* children
EnsureChildDir(n) ==
    /\ pcMain = "traverse"
    /\ v[n].pc = "mkdir"
    /\ IF Fails(n, "mkdir", 0)
       THEN /\ stats' = childCatch(n, processPageRecursivelyCatch(stats))
            /\ v' = [v EXCEPT ![n].pc = Settled]
            /\ UNCHANGED dirs
       ELSE /\ dirs' = dirs \cup Prefixes(ChildDir(n))
            /\ v' = StartChildren(n, v)
            /\ UNCHANGED stats
    /\ UNCHANGED <<cfg, pcMain, exitCode, files, wrote, prev>>

\* mutant: the parent goes on as soon as one child has returned
JoinParallelAny(n) ==
    /\ pcMain = "traverse"
    /\ cfg.parallel
    /\ v[n].pc = "children"
    /\ \E j \in 1..Len(v[n].children) : Terminal(v[n].children[j])
    /\ v' = [v EXCEPT ![n].pc = "done"]
    /\ UNCHANGED <<cfg, pcMain, exitCode, stats, files, dirs, wrote, prev>>

\* await Promise.all(childPromises): every child frame has returned
JoinParallel(n) ==
    /\ pcMain = "traverse"
    /\ cfg.parallel
    /\ v[n].pc = "children"
    /\ \A j \in 1..Len(v[n].children) : Terminal(v[n].children[j])
    /\ v' = [v EXCEPT ![n].pc = "done"]
    /\ UNCHANGED <<cfg, pcMain, exitCode, stats, files, dirs, wrote, prev>>

\* mutant: a failed child ends the loop
NextChildBreak(n, frames) ==
    LET i == frames[n].i
        kids == frames[n].children
    IN  IF i < Len(kids) /\ frames[kids[i]].pc # "failed"
        THEN [frames EXCEPT ![n].i = i + 1,
                            ![kids[i + 1]] = Call(ChildDir(n), frames[n].level + 1)]
        ELSE [frames EXCEPT ![n].pc = "done"]

\* the for loop of the sequential discipline after the awaited child returned:
\* the next child is called, or the loop ends
NextChild(n, frames) ==
    LET i == frames[n].i
        kids == frames[n].children
    IN  IF i < Len(kids)
        THEN [frames EXCEPT ![n].i = i + 1,
                            ![kids[i + 1]] = Call(ChildDir(n), frames[n].level + 1)]
        ELSE [frames EXCEPT ![n].pc = "done"]

\* mutant: the loop goes on only when the awaited child ended without failure
JoinSequentialOnSuccess(n) ==
    /\ pcMain = "traverse"
    /\ ~cfg.parallel
    /\ v[n].pc = "children"
    /\ v[v[n].children[v[n].i]].pc = "done"
    /\ v' = NextChild(n, v)
    /\ UNCHANGED <<cfg, pcMain, exitCode, stats, files, dirs, wrote, prev>>

\* await processPageRecursively(child.id, childDir, level + 1) in the for loop
\* has returned
JoinSequential(n) ==
    /\ pcMain = "traverse"
    /\ ~cfg.parallel
    /\ v[n].pc = "children"
    /\ Terminal(v[n].children[v[n].i])
    /\ v' = NextChild(n, v)
    /\ UNCHANGED <<cfg, pcMain, exitCode, stats, files, dirs, wrote, prev>>

----------------------------------------------------------------------------
(* backup.js *)

\* mutant: NOTION_TOKEN is not looked at
validateEnvironmentRootOnly == IF ~cfg.rootId THEN FALSE ELSE TRUE

\* validateEnvironment(): TRUE when it returns, FALSE when it throws
validateEnvironment ==
    IF ~cfg.rootId THEN FALSE
    ELSE IF ~cfg.token THEN FALSE
    ELSE TRUE

\* the catch of main: process.exit(1)
Fatal ==
    /\ pcMain' = "exited"
    /\ exitCode' = 1

Validate ==
    /\ pcMain = "start"
    /\ IF validateEnvironment
       THEN pcMain' = "clean" /\ UNCHANGED exitCode
       ELSE Fatal
    /\ UNCHANGED <<cfg, stats, files, dirs, wrote, v, prev>>

\* cleanOutputDirectory(): fs.rm of the output directory when CONFIG.CLEAN_OUTPUT
CleanOutputDirectory ==
    /\ pcMain = "clean"
    /\ \E cleanOutput \in BOOLEAN :
          IF cleanOutput THEN dirs' = {} /\ files' = {}
          ELSE UNCHANGED <<dirs, files>>
    /\ pcMain' = "ensure"
    /\ UNCHANGED <<cfg, exitCode, stats, wrote, v, prev>>

\* await ensureDir(CONFIG.OUTPUT_DIR), then processPageRecursively(rootPageId)
\* up to its first await
StartBackup ==
    /\ pcMain = "ensure"
    /\ IF Fails(0, "outdir", 0)
       THEN Fatal /\ UNCHANGED <<dirs, v>>
       ELSE /\ dirs' = dirs \cup {<<>>}
            /\ v' = [v EXCEPT ![Root] = Call(<<>>, 0)]
            /\ pcMain' = "traverse"
            /\ UNCHANGED exitCode
    /\ UNCHANGED <<cfg, stats, files, wrote, prev>>

\* utils.js generateIndex(rootPageId) writes the index file of the backup; like
\* every file write it may throw
generateIndexThrows == Fails(0, "index", 0)

\* await processPageRecursively(rootPageId) has settled; then await
\* generateIndex(rootPageId); a rejection or a throw reaches the catch of main
GenerateIndex ==
    /\ pcMain = "traverse"
    /\ Terminal(Root)
    /\ IF v[Root].pc = "rejected" \/ generateIndexThrows
       THEN Fatal /\ UNCHANGED files
       ELSE /\ files' = WriteFile(files, <<<<"INDEX.md">>>>, 0)
            /\ pcMain' = "summary"
            /\ UNCHANGED exitCode
    /\ UNCHANGED <<cfg, stats, dirs, wrote, v, prev>>

\* mutant: the counter is not looked at
ExitStatusZero(s) == 0

\* the exit status main chooses after printSummary
ExitStatus(s) == IF s.errors > 0 THEN 1 ELSE 0

\* printSummary(rootPageId); if (stats.errors > 0) process.exit(1)
Finish ==
    /\ pcMain = "summary"
    /\ exitCode' = ExitStatus(stats)
    /\ pcMain' = "exited"
    /\ UNCHANGED <<cfg, stats, files, dirs, wrote, v, prev>>

Next ==
    \/ Validate
    \/ CleanOutputDirectory
    \/ StartBackup
    \/ \E n \in Nodes : Sleep(n)
    \/ \E n \in Nodes : GetPageTitle(n)
    \/ \E n \in Nodes : ConvertPageToMarkdown(n)
    \/ \E n \in Nodes : WritePage(n)
    \/ \E n \in Nodes : ListChildren(n)
    \/ \E n \in Nodes : EnsureChildDir(n)
    \/ \E n \in Nodes : JoinParallel(n)
    \/ \E n \in Nodes : JoinSequential(n)
    \/ GenerateIndex
    \/ Finish

Spec == Init /\ [][Next]_vars

\* every timer fires and every remote call and file operation settles: a step
\* that can be taken is taken
SpecFair == Spec /\ WF_vars(Next)

\* the runs on the tree with a page listed twice
SpecDup == InitDup /\ [][Next]_vars

----------------------------------------------------------------------------
(* Two runs of one fixture: CONFIG.PARALLEL_PROCESSING false, then true *)

\* what a finished run leaves to compare
Outcome ==
    [paths |-> {w.path : w \in wrote},
     pagesProcessed |-> stats.pagesProcessed,
     errors |-> stats.errors]

\* the process is started again on the same remote tree with the same failing
\* calls, an empty output directory and PARALLEL_PROCESSING = true
Rerun ==
    /\ pcMain = "exited"
    /\ ~cfg.parallel
    /\ prev = {}
    /\ prev' = {Outcome}
    /\ cfg' = [cfg EXCEPT !.parallel = TRUE]
    /\ pcMain' = "start"
    /\ exitCode' = -1
    /\ stats' = [pagesProcessed |-> 0, errors |-> 0]
    /\ files' = {}
    /\ dirs' = {}
    /\ wrote' = {}
    /\ v' = [n \in Nodes |-> Pending]

InitEquiv ==
    /\ cfg \in Fixtures({FALSE})
    /\ Fresh
    /\ prev = {}

NextEquiv == Next \/ Rerun

SpecEquiv == InitEquiv /\ [][NextEquiv]_vars

----------------------------------------------------------------------------
(* Vocabulary of the properties *)

EnvOk == cfg.rootId /\ cfg.token

Exited == pcMain = "exited"

TraversalStarted == v[Root].pc # "pending"

Visited(n) == v[n].pc # "pending"

HasWritten(n) == \E w \in wrote : w.node = n

\* no call made for page n is among the failing ones
FaultFree(n) == \A f \in cfg.faults : f.node # n

Range(seq) == {seq[j] : j \in 1..Len(seq)}

\* the pages from s down to the parent of d, when d lies in the subtree of s
RECURSIVE PathAbove(_, _)
PathAbove(s, d) ==
    IF d = s \/ d = 0 THEN {}
    ELSE {cfg.parent[d]} \cup PathAbove(s, cfg.parent[d])

InSubtree(s, d) == d = s \/ s \in PathAbove(s, d)

\* the place the specification gives the file of page n:
\* outputRoot/<sanitized ancestor titles...>/<sanitized title>.md
RECURSIVE ExpectedDir(_)
ExpectedDir(n) ==
    IF cfg.parent[n] = 0 THEN <<>>
    ELSE Append(ExpectedDir(cfg.parent[n]),
                sanitizeFilename(getPageTitle(cfg.parent[n])))

ExpectedPath(n) ==
    Append(ExpectedDir(n), sanitizeFilename(getPageTitle(n)) \o <<".md">>)

DistinctSiblingTitles ==
    \A m, n \in Nodes :
        m # n /\ cfg.parent[m] = cfg.parent[n]
        => sanitizeFilename(getPageTitle(m)) # sanitizeFilename(getPageTitle(n))

----------------------------------------------------------------------------
(* C1 *)

\* C1 (as claimed): when the content conversion of exactly one page fails and
\* every other call succeeds, stats.errors is 1 once
\* processPageRecursively(root) has returned.
C1_SingleFailureCountedOnce ==
    (Terminal(Root) /\
     \E n \in Nodes : cfg.faults = {[node |-> n, kind |-> "convert", page |-> 0]})
    => stats.errors = 1

----------------------------------------------------------------------------
(* C2 *)

\* the pages of the subtree of s that the traversal owes a visit: those below
\* pages none of whose calls fail
Owed(s) == {d \in Nodes : InSubtree(s, d) /\ \A a \in PathAbove(s, d) : FaultFree(a)}

\* C2: at the end of the traversal, in either discipline, when the frame of a
\* child failed, every sibling of it and every page owed a visit in the
\* sibling's subtree was visited, and was written unless its own conversion
\* or write fails.
C2_SiblingsSurviveFailure ==
    Terminal(Root) =>
        \A p \in Nodes : \A c, s \in Range(v[p].children) :
            (v[p].pc = "done" /\ c # s /\ v[c].pc = "failed")
            => \A d \in Owed(s) :
                  /\ Terminal(d)
                  /\ (~Fails(d, "convert", 0) /\ ~Fails(d, "write", 0))
                     => [path |-> FilePath(d), node |-> d] \in wrote

\* a run in which the first child failed and the page below its later sibling
\* was written all the same
C2_Witness ==
    /\ Terminal(Root)
    /\ \E p \in Nodes : \E c, s \in Range(v[p].children) : \E d \in Owed(s) :
          /\ c < s /\ d # s
          /\ v[c].pc = "failed"
          /\ HasWritten(s) /\ HasWritten(d)

----------------------------------------------------------------------------
(* C3 *)

PageFiles == {f \in files : f.node # 0}

\* C3: when no call fails and sibling titles stay distinct after sanitizing,
\* the finished run wrote exactly one file per page, at
\* outputRoot/<sanitized ancestor titles>/<sanitized title>.md, counted every
\* page, counted no error and exits with status 0.
C3_FullMirror ==
    (Exited /\ EnvOk /\ cfg.faults = {} /\ DistinctSiblingTitles)
    => /\ wrote = {[path |-> ExpectedPath(n), node |-> n] : n \in Nodes}
       /\ PageFiles = wrote
       /\ Cardinality({w.path : w \in wrote}) = Cardinality(Nodes)
       /\ stats.pagesProcessed = Cardinality(Nodes)
       /\ stats.errors = 0
       /\ exitCode = 0

\* the run of the tree R -> {A, B}, A -> {C} with nothing failing
C3_Witness ==
    /\ Exited /\ EnvOk /\ cfg.faults = {} /\ DistinctSiblingTitles
    /\ cfg.parent = <<0, 1, 1, 2>>
    /\ stats.pagesProcessed = 4
    /\ \E w \in wrote : Len(w.path) = 3

----------------------------------------------------------------------------
(* C4 *)

\* C4: the parallel run of a fixture ends with the set of written paths,
\* stats.errors and stats.pagesProcessed of its sequential run, whatever the
\* interleaving of its branches.
C4_DisciplinesAgree ==
    (Exited /\ prev # {}) => prev = {Outcome}

\* a parallel run with a failing call that ended like the sequential one
C4_Witness ==
    /\ Exited /\ cfg.parallel /\ prev = {Outcome}
    /\ stats.errors > 0 /\ stats.pagesProcessed > 1

----------------------------------------------------------------------------
(* C5 *)

\* C5 (as claimed): in every run in which the traversal started, the exit
\* status is 0 exactly when stats.errors is 0 at the end of the run.
C5_ExitZeroIffNoErrors ==
    (Exited /\ TraversalStarted) => (exitCode = 0 <=> stats.errors = 0)

\* C5 (amended): in every run in which the traversal started, the exit status
\* is 0 exactly when stats.errors is 0 and generateIndex returned; it is 1
\* when stats.errors > 0 and when generateIndex threw into the catch of main.
C5_ExitZeroIffNoErrorsAndIndexed ==
    (Exited /\ TraversalStarted)
    => /\ exitCode \in {0, 1}
       /\ exitCode = 0 <=> (stats.errors = 0 /\ ~generateIndexThrows)

\* a run that counted an error, generated its index and exits with status 1
C5_Witness ==
    /\ Exited /\ TraversalStarted
    /\ ~generateIndexThrows
    /\ stats.errors > 0 /\ stats.pagesProcessed > 0 /\ exitCode = 1

----------------------------------------------------------------------------
(* C6 *)

\* C6 (as claimed): a run that exits with status 0 has a file on disk for
\* every page reachable from the root.
C6_ExitZeroMeansComplete ==
    (Exited /\ TraversalStarted /\ exitCode = 0)
    => \A n \in Nodes : \E f \in files : f.node = n

----------------------------------------------------------------------------
(* C7 *)

\* getChildPages(n) has returned to processPageRecursively
Listed(n) == HasWritten(n) /\ v[n].pc # "list"

\* the requests of the listing of n that throw
FailingRequests(n) == {k \in 1..NumPages(n) : Fails(n, "list", k)}

FirstFailingRequest(n) ==
    CHOOSE k \in FailingRequests(n) : \A j \in FailingRequests(n) : k <= j

\* the child_page entries of the responses 1..k of the listing of n, in order
RECURSIVE Collected(_, _)
Collected(n, k) ==
    IF k = 0 THEN <<>>
    ELSE Collected(n, k - 1) \o ChildPagesOf(ResponseResults(n, k))

\* C7 (as claimed): getChildPages never throws, and when request k of the
\* listing fails it returns the entries of the responses 1..k-1.
C7_ReturnsCollectedSoFar ==
    \A n \in Nodes :
        Listed(n) =>
            v[n].children =
                IF FailingRequests(n) = {} THEN Collected(n, NumPages(n))
                ELSE Collected(n, FirstFailingRequest(n) - 1)

\* C7 (amended): getChildPages never throws - a frame fails only by its own
\* conversion, write or child directory - and it returns every child_page
\* entry in listing order when no request fails, and the empty sequence when
\* a request fails, whatever the earlier responses held.
C7_ReturnsEmptyOnFailure ==
    \A n \in Nodes :
        /\ Listed(n) =>
              v[n].children =
                  IF FailingRequests(n) = {} THEN Collected(n, NumPages(n))
                  ELSE <<>>
        /\ v[n].pc = "failed" =>
              Fails(n, "convert", 0) \/ Fails(n, "write", 0) \/ Fails(n, "mkdir", 0)

\* a listing that failed after a response with a child page, and returned
\* nothing
C7_Witness ==
    \E n \in Nodes :
        /\ Listed(n)
        /\ FailingRequests(n) # {}
        /\ Collected(n, FirstFailingRequest(n) - 1) # <<>>
        /\ v[n].children = <<>>
        /\ v[n].pc = "done"

----------------------------------------------------------------------------
(* C8 *)

Running(n) == v[n].pc \notin {"pending", "done", "failed"}

\* C8 (as claimed): in the parallel discipline two sibling branches that run
\* at the same time never write the same file path.
C8_SiblingWritesDisjoint ==
    cfg.parallel =>
        \A m, n \in Nodes :
            (m # n /\ cfg.parent[m] = cfg.parent[n] /\ Running(m) /\ Running(n))
            => \A a, b \in wrote : (a.node = m /\ b.node = n) => a.path # b.path

----------------------------------------------------------------------------
(* C9 *)

\* "Untitled-" and the first 8 characters of the id of n
Placeholder(n) ==
    <<"Untitled-">> \o
    [j \in 1..(IF Len(PageId(n)) < 8 THEN Len(PageId(n)) ELSE 8) |-> PageId(n)[j]]

NoTitle(n) == Fails(n, "retrieve", 0) \/ TitleProp(n) = <<>>

\* C9: for a page whose title lookup throws or that has no title, getPageTitle
\* returns "Untitled-" and the first 8 characters of the id, the frame goes on
\* to the conversion and fails only by its own conversion or write or child
\* directory, and the file it writes is named Untitled-<first 8 of id>.md.
C9_TitleFallback ==
    \A n \in Nodes :
        NoTitle(n) =>
            /\ v[n].pc \notin {"pending", "title"} => v[n].title = Placeholder(n)
            /\ v[n].pc = "failed" =>
                  Fails(n, "convert", 0) \/ Fails(n, "write", 0) \/ Fails(n, "mkdir", 0)
            /\ (Terminal(n) /\ ~Fails(n, "convert", 0) /\ ~Fails(n, "write", 0))
                  => HasWritten(n)
            /\ \A w \in wrote :
                  w.node = n =>
                      w.path = Append(v[n].parentPath, Placeholder(n) \o <<".md">>)

\* a page whose title lookup threw and a page without title, both written
C9_Witness ==
    \E m, n \in Nodes :
        /\ Fails(m, "retrieve", 0) /\ HasWritten(m) /\ Len(PageId(m)) > 8
        /\ TitleProp(n) = <<>> /\ ~Fails(n, "retrieve", 0) /\ HasWritten(n)
        /\ Terminal(Root)

----------------------------------------------------------------------------
(* C10 *)

\* C10: when NOTION_ROOT_PAGE_ID or NOTION_TOKEN is missing, main exits with
\* status 1 and no step of the run touches the counters, the files, the
\* directories or a frame of the traversal.
C10_MissingEnvironmentAborts ==
    /\ [](~EnvOk => /\ pcMain \in {"start", "exited"}
                    /\ Exited => exitCode = 1
                    /\ stats = [pagesProcessed |-> 0, errors |-> 0]
                    /\ \A n \in Nodes : ~Visited(n))
    /\ [][~EnvOk => UNCHANGED <<stats, files, dirs, wrote, v>>]_vars

\* the process has exited for a missing NOTION_TOKEN, the output directory
\* still absent
C10_Witness ==
    /\ cfg.rootId /\ ~cfg.token
    /\ Exited /\ exitCode = 1
    /\ dirs = {} /\ files = {}

----------------------------------------------------------------------------
(* C11 *)

\* the pages the run has come to know: the root and every entry of a listing
\* that getChildPages returned
Discovered(n) == n = Root \/ \E p \in Nodes : n \in Range(v[p].children)

\* ensureDir(childDir) of the frame threw: its catch ran after the listing
ChildDirFailed(p) == v[p].pc = "failed" /\ v[p].children # <<>>

\* C11 (as claimed): once processPageRecursively(root) is called it eventually
\* returns, and when it has returned every discovered page has ended, done or
\* failed.
C11_EveryDiscoveredNodeEnds ==
    /\ TraversalStarted ~> Terminal(Root)
    /\ [](Terminal(Root) => \A n \in Nodes : Discovered(n) => Terminal(n))

\* C11 (amended): for every tree, every choice of failing calls and both
\* disciplines, once processPageRecursively(root) is called it eventually
\* returns; when it has returned every page that was visited has ended, done
\* or failed, and a discovered page was left unvisited only where
\* ensureDir(childDir) of its parent threw.
C11_TraversalTerminates ==
    /\ TraversalStarted ~> Terminal(Root)
    /\ [](Terminal(Root) =>
            \A n \in Nodes :
                /\ Visited(n) => Terminal(n)
                /\ (Discovered(n) /\ ~Visited(n))
                   => \E p \in Nodes :
                         /\ n \in Range(v[p].children)
                         /\ Fails(p, "mkdir", 0) /\ ChildDirFailed(p))

\* the traversal has returned after one page failed to convert and the child
\* directory of another could not be created, its children left unvisited
C11_Witness ==
    /\ Terminal(Root)
    /\ v[Root].pc = "done"
    /\ \E m, n \in Nodes \ {Root} :
          /\ v[m].pc = "failed" /\ Fails(m, "convert", 0)
          /\ ChildDirFailed(n)
          /\ \E d \in Range(v[n].children) : ~Visited(d)

----------------------------------------------------------------------------
(* C12 *)

\* the remote requests a frame at its position has issued: pages.retrieve,
\* n2m.convert, and one blocks.children.list per turn of the loop
RequestsSoFar(n) ==
    CASE v[n].pc \in {"pending", "title"} -> 0
      [] v[n].pc = "convert" -> 1
      [] v[n].pc = "write" -> 2
      [] v[n].pc = "list" -> 1 + v[n].cursor
      [] OTHER -> v[n].requests

\* C12: in every frame, of either discipline, every remote request issued by
\* getPageTitle, by getChildPages (once per request of the listing) and by
\* convertPageToMarkdown follows a completed sleep of its own: the sleeps
\* completed are the requests issued, or one more while a request is due.
C12_EveryRequestThrottled ==
    \A n \in Nodes :
        /\ v[n].requests = RequestsSoFar(n)
        /\ v[n].requests <= v[n].sleeps
        /\ v[n].sleeps <= v[n].requests + 1
        /\ Terminal(n) => v[n].sleeps = v[n].requests

\* a parallel run in which a frame issued a continuation request of its listing
\* while a sibling branch is under way
C12_Witness ==
    /\ cfg.parallel
    /\ \E m, n \in Nodes :
          /\ m # n /\ Running(m) /\ v[m].requests > 0
          /\ v[n].pc = "list" /\ v[n].cursor > 1
          /\ v[n].requests = 3 /\ v[n].sleeps = 3

----------------------------------------------------------------------------
(* C13 *)

Descendants(n) == {d \in Nodes : d # n /\ InSubtree(n, d)}

MaterializationFails(n) == Fails(n, "convert", 0) \/ Fails(n, "write", 0)

\* C13: for a page whose conversion or write fails, the frame never issues a
\* request of the listing, never gets children, never creates its child
\* directory and no page below it is visited; once failed, a frame stays as
\* it is.
C13_FailedNodeIsNotEnumerated ==
    /\ [](\A n \in Nodes :
            MaterializationFails(n) =>
                /\ v[n].pc \in {"pending", "title", "convert", "write", "failed"}
                /\ v[n].cursor = 0 /\ v[n].children = <<>> /\ v[n].i = 0
                /\ v[n].requests <= 2
                /\ \A d \in Descendants(n) : ~Visited(d)
                /\ (v[n].pc = "failed" /\
                    \A m \in Nodes \ {n} :
                        v[m].pc \notin {"pending", "title"} => ChildDir(m) # ChildDir(n))
                   => ChildDir(n) \notin dirs)
    /\ [][\A n \in Nodes : v[n].pc = "failed" => v'[n] = v[n]]_vars

\* the traversal is over: a page with children failed to convert, nothing
\* below it was visited, its sibling was written
C13_Witness ==
    /\ Terminal(Root)
    /\ \E n, m \in Nodes :
          /\ Fails(n, "convert", 0) /\ v[n].pc = "failed"
          /\ Descendants(n) # {}
          /\ m # n /\ cfg.parent[m] = cfg.parent[n] /\ HasWritten(m)

----------------------------------------------------------------------------
(* C14 *)

\* C14: no step of getPageTitle or getChildPages, failing or not, changes
\* stats, and a run in which only title lookups and requests of child
\* listings fail ends with stats.errors = 0.
C14_DegradedDefaultsNotCounted ==
    /\ [][(\E n \in Nodes : v[n].pc \in {"title", "list"} /\ v'[n] # v[n])
          => stats' = stats]_vars
    /\ []((Terminal(Root) /\ \A f \in cfg.faults : f.kind \in {"retrieve", "list"})
          => stats.errors = 0)

\* a finished traversal in which a title lookup and a listing failed
C14_Witness ==
    /\ Terminal(Root)
    /\ \E m, n \in Nodes : \E k \in 1..3 :
          /\ cfg.faults = {[node |-> m, kind |-> "retrieve", page |-> 0],
                           [node |-> n, kind |-> "list", page |-> k]}
          /\ HasWritten(m) /\ HasWritten(n)
          /\ v[m].title = Untitled(m)
    /\ stats.errors = 0

----------------------------------------------------------------------------
(* C15 *)

\* the frame is between its call and its end and is not awaiting its children
InFlight(n) == v[n].pc \in {"title", "convert", "write", "list", "mkdir"}

\* C15: in the sequential discipline the children of a page are called one
\* at a time in listing order: a child is called only when every earlier child
\* and its whole subtree has ended, at most one frame of the run is in flight,
\* and the loop reaches every child, failed earlier children or not.
C15_SequentialOneAtATime ==
    ~cfg.parallel =>
        /\ Cardinality({n \in Nodes : InFlight(n)}) <= 1
        /\ \A p \in Nodes : \A j, k \in 1..Len(v[p].children) :
              (j < k /\ Visited(v[p].children[k]))
              => \A d \in Nodes :
                    InSubtree(v[p].children[j], d) => ~Running(d)
        /\ \A p \in Nodes :
              (v[p].pc = "done" /\ HasWritten(p))
              => \A j \in 1..Len(v[p].children) : Terminal(v[p].children[j])

\* the first child failed, the second is in flight
C15_Witness ==
    /\ ~cfg.parallel
    /\ \E p \in Nodes :
          /\ Len(v[p].children) >= 2
          /\ v[v[p].children[1]].pc = "failed"
          /\ InFlight(v[p].children[2])
          /\ v[v[p].children[2]].requests > 0

----------------------------------------------------------------------------
(* C16 *)

\* C16: in the parallel discipline a frame ends only when the frames of all
\* its children have ended, so that when main goes on to generateIndex and to
\* the test of stats.errors no frame is left that could write a file or count.
C16_ParallelJoinsBeforeExit ==
    cfg.parallel =>
        /\ \A n \in Nodes :
              v[n].pc = "done"
              => \A j \in 1..Len(v[n].children) : Terminal(v[n].children[j])
        /\ (pcMain \in {"summary", "exited"} /\ TraversalStarted)
           => \A n \in Nodes : ~Running(n)
        /\ Terminal(Root) => \A n \in Nodes : ~Running(n)

\* main has gone past the traversal of a tree whose root had three children
\* running at once
C16_Witness ==
    /\ cfg.parallel
    /\ pcMain = "summary"
    /\ Len(v[Root].children) = 3
    /\ \A n \in Nodes : Terminal(n)
    /\ stats.errors > 0

----------------------------------------------------------------------------
(* C17 *)

\* the increments of stats.errors the ended frames account for: the catch of
\* processPage and the catch of processPageRecursively for a failed
\* materialization, the latter alone for a failed child directory
RECURSIVE ErrorsOf(_)
ErrorsOf(S) ==
    IF S = {} THEN 0
    ELSE LET n == CHOOSE x \in S : TRUE
         IN  (IF v[n].pc # "failed" THEN 0 ELSE IF HasWritten(n) THEN 1 ELSE 2)
             + ErrorsOf(S \ {n})

\* C17: the counters are never negative, no step decreases either of them,
\* and under every interleaving each increment is applied once: pagesProcessed
\* is the number of frames that wrote their file and errors the number of
\* catches that ran.
C17_CountersMonotoneAndExact ==
    /\ [](/\ stats.pagesProcessed >= 0 /\ stats.errors >= 0
          /\ stats.pagesProcessed = Cardinality({n \in Nodes : HasWritten(n)})
          /\ stats.errors = ErrorsOf(Nodes))
    /\ [][/\ stats'.pagesProcessed >= stats.pagesProcessed
          /\ stats'.errors >= stats.errors]_vars

\* a parallel run in which two branches counted
C17_Witness ==
    /\ cfg.parallel
    /\ \E m, n \in Nodes :
          /\ m # n /\ cfg.parent[m] = cfg.parent[n]
          /\ v[m].pc = "failed" /\ v[n].pc = "failed"
    /\ stats.errors >= 3 /\ stats.pagesProcessed >= 1

----------------------------------------------------------------------------
(* C18 *)

\* the position of a frame in Pending -> Materializing (title, conversion,
\* write) -> EnumeratingChildren (listing, child directory, children) ->
\* Done | Failed
Rank(pc) ==
    CASE pc = "pending" -> 0
      [] pc = "title" -> 1
      [] pc = "convert" -> 2
      [] pc = "write" -> 3
      [] pc = "list" -> 4
      [] pc = "mkdir" -> 5
      [] pc = "children" -> 6
      [] OTHER -> 7

\* the children of p that processPageRecursively has called so far
Called(p) ==
    IF v[p].pc # "children" /\ ~(v[p].pc = "done" /\ v[p].children # <<>>) THEN {}
    ELSE IF cfg.parallel \/ v[p].pc = "done" THEN Range(v[p].children)
    ELSE {v[p].children[j] : j \in 1..v[p].i}

\* C18: a visit issues at most one title request and one conversion and
\* writes at most one file; every step of a frame moves it forward, or is a
\* sleep, a further request of its listing or the call of its next child, and
\* an ended frame never changes again; every reference to a page is visited
\* in a frame of its own, a page listed under two parents once under each,
\* and both visits write their file when no call fails.
C18_VisitOnceForwardOnly ==
    /\ [](\A n \in Nodes :
            /\ v[n].requests = RequestsSoFar(n)
            /\ v[n].requests <= 2 + NumPages(n)
            /\ Cardinality({w \in wrote : w.node = n}) <= 1
            /\ HasWritten(n) <=> Rank(v[n].pc) >= 4 /\ ~MaterializationFails(n)
            /\ \A d \in Called(n) : Visited(d))
    /\ [](Terminal(Root) /\ cfg.faults = {} =>
            \A m, n \in Nodes :
                /\ HasWritten(n)
                /\ (m # n /\ cfg.ids[m] = cfg.ids[n]) =>
                      \A a, b \in wrote : (a.node = m /\ b.node = n) => a.path # b.path)
    /\ [][\A n \in Nodes :
            v'[n] # v[n] =>
                /\ ~Terminal(n)
                /\ \/ Rank(v'[n].pc) > Rank(v[n].pc)
                   \/ /\ v'[n].pc = v[n].pc
                      /\ \/ v'[n].sleeps = v[n].sleeps + 1
                         \/ v'[n].cursor = v[n].cursor + 1
                         \/ v'[n].i = v[n].i + 1]_vars

\* the page listed under the root and under its second child was visited
\* twice: one visit wrote its file, the other failed to convert and ended
C18_Witness ==
    /\ Terminal(Root)
    /\ \E m, n \in Nodes :
          /\ m # n /\ cfg.ids[m] = cfg.ids[n]
          /\ cfg.parent[m] # cfg.parent[n]
          /\ HasWritten(m) /\ v[m].pc = "done"
          /\ Fails(n, "convert", 0) /\ v[n].pc = "failed" /\ v[n].requests = 2

----------------------------------------------------------------------------
(* C19 *)

\* every child that was called got childDir and level + 1 of its parent
ChildCallArguments ==
    \A p \in Nodes : \A d \in Range(v[p].children) :
        Visited(d) =>
            /\ v[d].parentPath = PathJoin(v[p].parentPath, sanitizeFilename(v[p].title))
            /\ v[d].level = v[p].level + 1

\* the frame has gone past await ensureDir(childDir), which returned or threw
EnsureDirCalled(n) ==
    \/ v[n].pc = "children"
    \/ Terminal(n) /\ v[n].children # <<>>

\* C19 (as claimed): every child is called with
\* dir = parentPath/sanitizeFilename(t) and lvl = level + 1, and at the end of
\* a visit the directory parentPath/sanitizeFilename(t) exists if and only if
\* the page was written and getChildPages returned at least one child.
C19_ChildDirIffChildren ==
    /\ ChildCallArguments
    /\ \A n \in Nodes :
          Terminal(n) =>
              (ChildDir(n) \in dirs <=> HasWritten(n) /\ v[n].children # <<>>)

\* C19 (amended): every child is called with
\* dir = parentPath/sanitizeFilename(t) and lvl = level + 1; a visit calls
\* ensureDir(parentPath/sanitizeFilename(t)) if and only if the page was
\* written and getChildPages returned at least one child; the directory exists
\* from then on unless that call threw, in which case the visit ends failed
\* and no child is called.
C19_ChildDirEnsuredIffChildren ==
    /\ ChildCallArguments
    /\ \A n \in Nodes :
          /\ Terminal(n) =>
                (EnsureDirCalled(n) <=> HasWritten(n) /\ v[n].children # <<>>)
          /\ EnsureDirCalled(n) =>
                IF Fails(n, "mkdir", 0)
                THEN /\ v[n].pc = "failed"
                     /\ \A d \in Range(v[n].children) : ~Visited(d)
                ELSE /\ ChildDir(n) \in dirs
                     /\ v[n].pc \in {"children", "done"}
          /\ (Visited(n) /\ n # Root) => v[n].parentPath \in dirs

\* the run is over: a child of the root with a child of its own got its
\* child directory and called that child two levels below the root; its
\* sibling and its child, with no children, got none
C19_Witness ==
    /\ Terminal(Root)
    /\ \E m, n, d \in Nodes :
          /\ v[m].pc = "done" /\ d \in Range(v[m].children)
          /\ v[d].level = 2 /\ HasWritten(d)
          /\ ~EnsureDirCalled(d) /\ ChildDir(d) \notin dirs
          /\ EnsureDirCalled(m) /\ ChildDir(m) \in dirs
          /\ n # m /\ cfg.parent[n] = cfg.parent[m]
          /\ HasWritten(n) /\ ~EnsureDirCalled(n) /\ ChildDir(n) \notin dirs

----------------------------------------------------------------------------
(* C20 *)

\* C20: the promise of processPageRecursively never rejects: every frame that
\* ends, whatever failed in it or below it, is resolved; the handlers at the
\* call sites of the children never run, so stats.errors holds the increments
\* of the catches of processPage and processPageRecursively and nothing else,
\* and main reaches its own catch only by ensureDir(OUTPUT_DIR) or
\* generateIndex.
C20_NeverRejects ==
    /\ \A n \in Nodes : v[n].pc # "rejected"
    /\ stats.errors = ErrorsOf(Nodes)
    /\ (Terminal(Root) /\ ~generateIndexThrows) => pcMain \in {"traverse", "summary", "exited"}
    /\ (pcMain = "exited" /\ TraversalStarted /\ ~generateIndexThrows)
       => exitCode = ExitStatus(stats)

\* main has gone on to the summary after the write of one child and the child
\* directory of another failed
C20_Witness ==
    /\ pcMain = "summary"
    /\ v[Root].pc = "done"
    /\ \E m, n \in Nodes :
          /\ v[m].pc = "failed" /\ Fails(m, "write", 0)
          /\ v[n].pc = "failed" /\ Fails(n, "mkdir", 0)
    /\ stats.errors = 3

====
